---------------------------- MODULE Spec2Model ----------------------------
(***************************************************************************)
(* A model of ffxiv-wiki (src/src/main.rs): a batch converter that walks   *)
(* an input folder, and turns every collected HTML page into a Markdown    *)
(* file (front matter, body blocks, footer) in one flat output folder,     *)
(* one rayon task per collected file.                                      *)
(*                                                                         *)
(* Strings are sequences of tokens.  A token is a TLA+ string standing for *)
(* a run of characters; the characters the program inspects one by one     *)
(* (the quote and the backslash of the quoting rule, '/', '.', '_', '%',   *)
(* the space and the markup characters '&', '<', '>') are always tokens of *)
(* their own, so a per-character rule is a per-token rule.                 *)
(***************************************************************************)
EXTENDS Naturals, Sequences, FiniteSets, TLC

(***************************************************************************)
(* Sequence helpers                                                        *)
(***************************************************************************)
RECURSIVE Flatten(_)
Flatten(ss) ==
    IF ss = <<>> THEN <<>> ELSE Head(ss) \o Flatten(Tail(ss))

Map(f(_), s) ==
    [k \in 1..Len(s) |-> f(s[k])]

SeqsUpTo(S, n) ==
    UNION {[1..k -> S] : k \in 0..n}

(***************************************************************************)
(* The parsed document (scraper::Html).  A node is a record; a text node   *)
(* has tag "#text".  kids are in document order.                           *)
(***************************************************************************)
Text(t) ==
    [tag |-> "#text", id |-> "", cls |-> "", text |-> t, kids |-> <<>>]

Elem(tag, id, cls, kids) ==
    [tag |-> tag, id |-> id, cls |-> cls, text |-> <<>>, kids |-> kids]

El(tag, kids) ==
    Elem(tag, "", "", kids)

is_text(n) ==
    n.tag = "#text"

\* html5ever's serializer: character data escapes '&', '<' and '>'.
escape_text(tok) ==
    CASE tok = "&" -> <<"&", "amp;">>
      [] tok = "<" -> <<"&", "lt;">>
      [] tok = ">" -> <<"&", "gt;">>
      [] OTHER -> <<tok>>

attrs_html(n) ==
    (IF n.id = "" THEN <<>> ELSE <<" id=", "\"", n.id, "\"">>)
    \o (IF n.cls = "" THEN <<>> ELSE <<" class=", "\"", n.cls, "\"">>)

RECURSIVE serialize(_)
\* ElementRef::inner_html: the serialization of the element's children.
inner_html(n) ==
    Flatten([k \in 1..Len(n.kids) |-> serialize(n.kids[k])])

serialize(n) ==
    IF is_text(n)
    THEN Flatten([k \in 1..Len(n.text) |-> escape_text(n.text[k])])
    ELSE <<"<", n.tag>> \o attrs_html(n) \o <<">">>
         \o inner_html(n) \o <<"<", "/", n.tag, ">">>

\* The tree below n in document order (ego_tree traverse, opening edges),
\* each node with the tag of its parent; p is the tag of n's parent.
RECURSIVE traverse(_, _)
traverse(n, p) ==
    <<[node |-> n, parent |-> p]>>
    \o Flatten([k \in 1..Len(n.kids) |-> traverse(n.kids[k], n.tag)])

\* A compound selector [tag, id, cls, ptag]: "" leaves a part unconstrained;
\* ptag is the tag required of the parent (the child combinator '>').
Sel(tag, id, cls, ptag) ==
    [tag |-> tag, id |-> id, cls |-> cls, ptag |-> ptag]

matches(sels, e) ==
    /\ ~is_text(e.node)
    /\ \E s \in sels :
          /\ s.tag = "" \/ e.node.tag = s.tag
          /\ s.id = "" \/ e.node.id = s.id
          /\ s.cls = "" \/ e.node.cls = s.cls
          /\ s.ptag = "" \/ e.parent = s.ptag

\* Html::select: every element of the document, in document order, that
\* matches one of the selectors of the list.  (scraper walks the nodes in
\* the order the parser created them, which is the document order for the
\* pages modelled here: none of them makes the parser move a node.)
select_document(doc, sels) ==
    LET all == traverse(doc, "")
    IN  Map(LAMBDA e : e.node, SelectSeq(all, LAMBDA e : matches(sels, e)))

\* ElementRef::select: the descendants of v (v itself is skipped) that match;
\* a parent named by the selector may be v itself.
select_element(v, sels) ==
    LET below == Flatten([k \in 1..Len(v.kids) |-> traverse(v.kids[k], v.tag)])
    IN  Map(LAMBDA e : e.node, SelectSeq(below, LAMBDA e : matches(sels, e)))

(***************************************************************************)
(* Title and front matter (generate_markdown, "TITLE")                     *)
(***************************************************************************)
TitleSelector ==
    {Sel("", "firstHeading", "", ""), Sel("", "section_0", "", "")}

\* A variant of title that looks for #firstHeading first and for #section_0
\* only when there is none: two selections instead of one selector list.
title_by_priority(html) ==
    LET first == select_document(html, {Sel("", "firstHeading", "", "")})
        second == select_document(html, {Sel("", "section_0", "", "")})
    IN  IF first # <<>> THEN inner_html(first[1])
        ELSE IF second # <<>> THEN inner_html(second[1])
        ELSE <<"UNKNOWN">>

\* The inner markup of the first element the selector list matches, else
\* the literal UNKNOWN.
title(html) ==
    LET found == select_document(html, TitleSelector)
    IN  IF found # <<>> THEN inner_html(found[1]) ELSE <<"UNKNOWN">>

\* QSSpec::classify_for_quoting
classify_for_quoting(pcp) ==
    IF pcp \in {"\"", "\\"} THEN "NeedsQuoting" ELSE "QText"

\* quoted_string::quote::<QSSpec>: the input between two quote marks, a
\* backslash before every character that needs quoting; an error on a
\* character the classifier calls Invalid.
quote(input) ==
    LET class == Map(classify_for_quoting, input)
    IN  IF \E k \in 1..Len(input) : class[k] = "Invalid"
        THEN [ok |-> FALSE, val |-> <<>>]
        ELSE [ok |-> TRUE,
              val |-> <<"\"">>
                      \o Flatten([k \in 1..Len(input) |->
                                    IF class[k] = "NeedsQuoting"
                                    THEN <<"\\", input[k]>>
                                    ELSE <<input[k]>>])
                      \o <<"\"">>]

\* quote(&title).map_err(|_| title).unwrap(): the quoted title, or a panic
\* that carries the title when quoting returned an error.
quoted_title(t) ==
    LET q == quote(t)
    IN  IF q.ok THEN [panic |-> FALSE, val |-> q.val]
        ELSE [panic |-> TRUE, val |-> t]

\* format!("+++\ntitle= {}\n+++", ..) handed to write_raw
front_matter(quoted) ==
    [kind |-> "raw", text |-> <<"+++", "\n", "title= ">> \o quoted \o <<"\n", "+++">>]

(***************************************************************************)
(* Body (generate_markdown, "CONTENT")                                     *)
(***************************************************************************)
Header(text, level) ==
    [type |-> "Header", text |-> text, level |-> level, plain |-> FALSE, items |-> <<>>]

Paragraph(text, is_text_only) ==
    [type |-> "Paragraph", text |-> text, level |-> 0, plain |-> is_text_only, items |-> <<>>]

List(items) ==
    [type |-> "List", text |-> <<>>, level |-> 0, plain |-> FALSE, items |-> items]

ContainerSelector ==
    {Sel("", "", "mw-parser-output", "")}

\* .children().filter_map(ElementRef::wrap): the children that are elements
element_children(element_ref) ==
    SelectSeq(element_ref.kids, LAMBDA k : ~is_text(k))

\* A variant of heading_text with the descendant combinator ("<tag> span").
heading_text_descendant(v, tag) ==
    LET spans == select_element(v, {Sel("span", "", "", "")})
    IN  IF spans = <<>> THEN [panic |-> TRUE, val |-> <<>>]
        ELSE [panic |-> FALSE, val |-> inner_html(spans[1])]

\* v.select("<tag> > span").next().unwrap().inner_html()
heading_text(v, tag) ==
    LET spans == select_element(v, {Sel("span", "", "", tag)})
    IN  IF spans = <<>> THEN [panic |-> TRUE, val |-> <<>>]
        ELSE [panic |-> FALSE, val |-> inner_html(spans[1])]

\* The match of the second filter_map: Some(content) as a one-element
\* sequence, None as the empty one, or the panic of an unwrap on None.
classify(v) ==
    CASE v.tag = "h2" ->
            LET t == heading_text(v, "h2")
            IN  [panic |-> t.panic, some |-> IF t.panic THEN <<>> ELSE <<Header(t.val, 1)>>]
      [] v.tag = "h3" ->
            LET t == heading_text(v, "h3")
            IN  [panic |-> t.panic, some |-> IF t.panic THEN <<>> ELSE <<Header(t.val, 2)>>]
      [] v.tag = "p" ->
            [panic |-> FALSE,
             some |-> <<Paragraph(inner_html(v),
                                  \A k \in 1..Len(v.kids) : is_text(v.kids[k]))>>]
      [] v.tag = "section" ->
            [panic |-> FALSE,
             some |-> <<List(Map(inner_html, select_element(v, {Sel("li", "", "", "ul")})))>>]
      [] OTHER -> [panic |-> FALSE, some |-> <<>>]

\* let contents = element_ref.children()...collect(): the blocks in child
\* order, or a panic when the classification of a child panics.
contents(element_ref) ==
    LET each == Map(classify, element_children(element_ref))
    IN  IF \E k \in 1..Len(each) : each[k].panic
        THEN [panic |-> TRUE, val |-> <<>>]
        ELSE [panic |-> FALSE, val |-> Flatten(Map(LAMBDA c : c.some, each))]

\* A variant of emit that writes every paragraph, plain or not.
emit_every_paragraph(content) ==
    CASE content.type = "Header" ->
            <<[kind |-> "heading", level |-> content.level, text |-> content.text]>>
      [] content.type = "Paragraph" ->
            <<[kind |-> "paragraph", text |-> content.text]>>
      [] content.type = "List" ->
            <<[kind |-> "list", numbered |-> FALSE, items |-> content.items]>>

\* What the loop "for content in contents" writes for one content.
emit(content) ==
    CASE content.type = "Header" ->
            <<[kind |-> "heading", level |-> content.level, text |-> content.text]>>
      [] content.type = "Paragraph" ->
            IF content.plain
            THEN <<[kind |-> "paragraph", text |-> content.text]>>
            ELSE <<>>
      [] content.type = "List" ->
            <<[kind |-> "list", numbered |-> FALSE, items |-> content.items]>>

(***************************************************************************)
(* Paths (std::path).  A path is a sequence of components, a component a   *)
(* string (a sequence of tokens); an absolute path starts with RootDir.    *)
(***************************************************************************)
RootDir ==
    <<"/">>

CurDir ==
    <<".">>

ParentDir ==
    <<".", ".">>

\* A byte that is not part of any UTF-8 text.
BadByte ==
    "\\xFF"

is_absolute(p) ==
    p # <<>> /\ p[1] = RootDir

\* Path::file_name: the final component (the paths of the model end in a
\* normal component).
file_name(p) ==
    p[Len(p)]

\* OsString::into_string succeeds on valid Unicode only.
is_unicode(name) ==
    \A k \in 1..Len(name) : name[k] # BadByte

\* The place of the '.' that starts the extension: the last '.', unless the
\* name has none or only a leading one (0 then).
extension_dot(name) ==
    LET dots == {k \in 2..Len(name) : name[k] = "."}
    IN  IF dots = {} THEN 0 ELSE CHOOSE k \in dots : \A j \in dots : j <= k

\* path.extension().map(|c| c == "html").unwrap_or(false)
has_html_extension(p) ==
    LET name == file_name(p)
        d == extension_dot(name)
    IN  d # 0 /\ SubSeq(name, d + 1, Len(name)) = <<"html">>

\* PathBuf::set_extension: the file stem, a '.', the new extension.
set_extension(p, ext) ==
    LET name == file_name(p)
        d == extension_dot(name)
        stem == IF d = 0 THEN name ELSE SubSeq(name, 1, d - 1)
    IN  SubSeq(p, 1, Len(p) - 1) \o <<stem \o <<".">> \o ext>>

\* PathBuf::push of a relative one-component path
push(p, name) ==
    Append(p, name)

\* let output_file = { output_folder + file_name, extension set to md }
output_file(input_file, output_folder) ==
    set_extension(push(output_folder, file_name(input_file)), <<"md">>)

\* Path::to_str: the components joined by '/'
RECURSIVE join(_)
join(p) ==
    IF p = <<>> THEN <<>>
    ELSE IF Len(p) = 1 THEN p[1]
    ELSE p[1] \o <<"/">> \o join(Tail(p))

to_str(p) ==
    IF is_absolute(p) THEN <<"/">> \o join(Tail(p)) ELSE join(p)

\* pathdiff::diff_paths, the loop over the two component iterators; a and b
\* are what is left of path and base, comps the result so far.
RECURSIVE diff_loop(_, _, _)
diff_loop(a, b, comps) ==
    IF a = <<>> /\ b = <<>> THEN [some |-> TRUE, val |-> comps]
    ELSE IF b = <<>> THEN [some |-> TRUE, val |-> comps \o a]
    ELSE IF a = <<>> THEN diff_loop(a, Tail(b), Append(comps, ParentDir))
    ELSE IF comps = <<>> /\ Head(a) = Head(b) THEN diff_loop(Tail(a), Tail(b), comps)
    ELSE IF Head(b) = CurDir THEN diff_loop(Tail(a), Tail(b), Append(comps, Head(a)))
    ELSE IF Head(b) = ParentDir THEN [some |-> FALSE, val |-> <<>>]
    ELSE [some |-> TRUE,
          val |-> comps \o [k \in 1..Len(b) |-> ParentDir] \o a]

diff_paths(path, base) ==
    IF is_absolute(path) # is_absolute(base)
    THEN IF is_absolute(path) THEN [some |-> TRUE, val |-> path]
         ELSE [some |-> FALSE, val |-> <<>>]
    ELSE diff_loop(path, base, <<>>)

\* urlencoding::encode: everything but letters, digits, '-', '_', '.', '~'
\* becomes '%' and two hexadecimal digits.
encode_token(tok) ==
    CASE tok = "/" -> <<"%", "2F">>
      [] tok = " " -> <<"%", "20">>
      [] tok = "%" -> <<"%", "25">>
      [] OTHER -> <<tok>>

encode(str) ==
    Flatten(Map(encode_token, str))

\* let relative_path = encode(diff_paths(input_file, output_file).unwrap()
\*                            .to_str().unwrap())
relative_path(input_file, out_file) ==
    LET d == diff_paths(input_file, out_file)
    IN  IF d.some THEN [panic |-> FALSE, val |-> encode(to_str(d.val))]
        ELSE [panic |-> TRUE, val |-> <<>>]

\* A variant of link_text that names the output file.
link_text_of_output(input_file, out_file) ==
    file_name(out_file)

\* let file_name = Path::new(&file_name_str): the text of the footer's link
link_text(input_file, out_file) ==
    file_name(input_file)

\* "generated from ".paragraph().append(file_name.bold().link_to(&relative_path))
footer(name, link) ==
    [kind |-> "paragraph", text |-> <<"generated from ">>,
     bold |-> name, link_to |-> link]

(***************************************************************************)
(* The file system under the input path, and main's collect_files          *)
(***************************************************************************)
\* The paths whose proper prefix p is: p is a directory with entries.
below(d, p) ==
    {q \in DOMAIN d : Len(q) > Len(p) /\ SubSeq(q, 1, Len(p)) = p}

is_dir(d, p) ==
    below(d, p) # {}

\* std::fs::read_dir: the entries of a directory, in no particular order
read_dir(d, dir) ==
    {SubSeq(q, 1, Len(dir) + 1) : q \in below(d, dir)}

Perms(S) ==
    {o \in [1..Cardinality(S) -> S] : \A j, k \in 1..Cardinality(S) : o[j] = o[k] => j = k}

\* collect_files: every order read_dir may give leads to one result; the
\* files of a sub-directory are appended where the directory is met.
RECURSIVE collect_files(_, _)
RECURSIVE collect_entries(_, _)
collect_entries(d, entries) ==
    IF entries = <<>> THEN {<<>>}
    ELSE LET path == Head(entries)
             here == IF is_dir(d, path) THEN collect_files(d, path)
                     ELSE IF has_html_extension(path) THEN {<<path>>}
                     ELSE {<<>>}
         IN  {h \o t : h \in here, t \in collect_entries(d, Tail(entries))}

collect_files(d, dir) ==
    IF is_dir(d, dir)
    THEN UNION {collect_entries(d, order) : order \in Perms(read_dir(d, dir))}
    ELSE {<<dir>>}

(***************************************************************************)
(* rayon: par_iter().for_each over a slice.  The slice is split in halves  *)
(* (bridge_producer_consumer); a part that is split no further is a leaf,  *)
(* whose items one worker converts one after the other.  A part is split   *)
(* while it has two items or more and split budget left (the budget starts *)
(* at the number of threads and is halved by every split); a part that was *)
(* stolen by another thread gets a fresh budget.                           *)
(***************************************************************************)
Max(a, b) ==
    IF a >= b THEN a ELSE b

RECURSIVE leaves_of(_, _, _, _, _)
leaves_of(lo, len, splits, nthreads, migrated) ==
    LET mid == len \div 2
        whole == <<[k \in 1..len |-> lo + k - 1]>>
        halves(s) == {l \o r : l \in leaves_of(lo, mid, s, nthreads, FALSE),
                               r \in leaves_of(lo + mid, len - mid, s, nthreads, nthreads > 1)}
    IN  IF mid < 1 THEN {whole}
        ELSE (IF splits > 0 THEN halves(splits \div 2) ELSE {whole})
             \cup (IF migrated THEN halves(Max(nthreads, splits \div 2)) ELSE {})

(***************************************************************************)
(* Inputs                                                                  *)
(***************************************************************************)
MaxFiles ==
    3

MaxThreads ==
    2

T(tok) ==
    Text(<<tok>>)

Span(tok) ==
    El("span", <<T(tok)>>)

\* The content of an input file is written as the list of the pieces of
\* markup it holds: those before the content container, and those that are
\* the children of the container (boxed FALSE: the page has no container).
\* snippet gives the tree the HTML parser builds for a piece.
snippet(key) ==
    CASE key = "firstHeading" -> Elem("h1", "firstHeading", "", <<T("First")>>)
      [] key = "section_0" -> Elem("h1", "section_0", "", <<T("Zero")>>)
      [] key = "section_0_around" ->
            Elem("div", "section_0", "", <<Elem("h1", "firstHeading", "", <<T("First")>>)>>)
      [] key = "firstHeading_quote" ->
            Elem("h1", "firstHeading", "", <<T("Say "), T("\""), T("hi"), T("\\")>>)
      [] key = "h2_span" -> El("h2", <<Span("Intro")>>)
      [] key = "h2_bare" -> El("h2", <<T("Intro")>>)
      [] key = "h2_a_span" -> El("h2", <<El("a", <<Span("Deep")>>)>>)
      [] key = "h2_a_span_span" -> El("h2", <<El("a", <<Span("Deep")>>), Span("Intro")>>)
      [] key = "h2_div_h2_span" -> El("h2", <<El("div", <<El("h2", <<Span("Inner")>>)>>)>>)
      [] key = "h3_span" -> El("h3", <<T("1"), Span("Sub"), Span("Edit")>>)
      [] key = "h3_bare" -> El("h3", <<>>)
      [] key = "h3_div_h2_span" -> El("h3", <<El("div", <<El("h2", <<Span("Inner")>>)>>)>>)
      [] key = "p_text" -> El("p", <<T("Hello world")>>)
      [] key = "p_amp" -> El("p", <<T("R"), T("&"), T("D")>>)
      [] key = "p_bold" -> El("p", <<T("Hello "), El("b", <<T("world")>>)>>)
      [] key = "p_empty" -> El("p", <<>>)
      [] key = "section_ul" ->
            El("section", <<El("ul", <<El("li", <<T("A")>>), El("li", <<T("B")>>)>>)>>)
      [] key = "section_empty" -> El("section", <<T("none")>>)
      [] key = "section_div_ul" ->
            El("section", <<El("div", <<El("ul", <<El("li", <<T("A")>>)>>)>>),
                            El("ol", <<El("li", <<T("C")>>)>>)>>)
      [] key = "section_nested" ->
            El("section", <<El("ul", <<El("li", <<T("A"), El("ul", <<El("li", <<T("B")>>)>>)>>)>>)>>)
      [] key = "div_h2_span" -> El("div", <<El("h2", <<Span("Hidden")>>), El("p", <<T("x")>>)>>)
      [] key = "text" -> T("loose text")
      [] key = "table" -> El("table", <<>>)

Content(before, boxed, inside) ==
    [head |-> before, boxed |-> boxed, body |-> inside]

\* scraper::Html::parse_document(&content)
parse_document(content) ==
    El("html",
       <<El("head", <<>>),
         El("body", Map(snippet, content.head)
                    \o (IF content.boxed
                        THEN <<Elem("div", "", "mw-parser-output", Map(snippet, content.body))>>
                        ELSE Map(snippet, content.body)))>>)

\* Three pages of the kinds the converter meets: a wiki article, an article
\* with a heading that has no span, and a page of another kind.
PageArticle ==
    Content(<<"firstHeading">>, TRUE, <<"h2_span", "p_text", "section_ul">>)

PageBareHeading ==
    Content(<<>>, TRUE, <<"p_text", "h2_bare">>)

PageOther ==
    Content(<<>>, FALSE, <<"p_text">>)

RunDocs ==
    {PageArticle, PageBareHeading, PageOther}

NameA ==
    <<"a", ".", "html">>

NameUnderscore ==
    <<"_", "a", ".", "html">>

NameNotUnicode ==
    <<"_", BadByte, ".", "html">>

NameHtm ==
    <<"b", ".", "htm">>

\* The files that may lie under the input folder, relative to it.
Universe ==
    {<<NameA>>, <<<<"sub">>, NameA>>, <<NameUnderscore>>, <<NameNotUnicode>>, <<NameHtm>>}

\* The file whose content differs from run to run; sub/a.html is an article,
\* the others are pages of another kind.
Varied ==
    {<<NameA>>}

fixed_content(rel) ==
    IF rel = <<<<"sub">>, NameA>> THEN PageArticle ELSE PageOther

InputFolders ==
    {<<<<"in">>>>, <<RootDir, <<"w">>, <<"in">>>>}

OutputFolders ==
    {<<<<"out">>>>, <<RootDir, <<"w">>, <<"out">>>>}

Disks(base) ==
    UNION {[{base \o r : r \in rel} -> RunDocs] : rel \in {u \in SUBSET Universe : Cardinality(u) <= MaxFiles}}

(***************************************************************************)
(* State                                                                   *)
(***************************************************************************)
VARIABLES
    args,         \* [input, output]: the two command line arguments
    disk,         \* the files under the input folder: path -> content
    nthreads,     \* the size of rayon's thread pool
    main,         \* where main is: "collect", "for_each", "exit_ok", "exit_panic"
    input_files,  \* main's input_files
    leaves,       \* the parts of input_files the workers convert, as indices
    pc,           \* per task: where generate_markdown is
    opened,       \* the tasks that opened and read their input file
    created,      \* <<path, task>>: the task created (truncated) the output file
    contents_of,  \* per task: the local contents, once collected
    md,           \* per task: what it wrote to its output file, in order
    panic_at      \* per task: the unwrap that panicked, "" if none

vars ==
    <<args, disk, nthreads, main, input_files, leaves, pc, opened, created,
      contents_of, md, panic_at>>

Tasks ==
    1..Len(input_files)

TypeOK ==
    /\ main \in {"collect", "for_each", "exit_ok", "exit_panic"}
    /\ \A i \in Tasks :
          pc[i] \in {"pending", "skipped", "named", "read", "created", "front",
                     "classified", "blocks", "done", "panicked"}

InitState(a, d, n) ==
    /\ args = a
    /\ disk = d
    /\ nthreads = n
    /\ main = "collect"
    /\ input_files = <<>>
    /\ leaves = <<>>
    /\ pc = <<>>
    /\ opened = {}
    /\ created = {}
    /\ contents_of = <<>>
    /\ md = <<>>
    /\ panic_at = <<>>

\* A run over a folder, or over one file named on the command line.
Init ==
    \E base \in InputFolders, out \in OutputFolders, n \in 1..MaxThreads :
       \E d \in Disks(base) :
          /\ \A q \in DOMAIN d :
                LET rel == SubSeq(q, Len(base) + 1, Len(q))
                IN  rel \notin Varied => d[q] = fixed_content(rel)
          /\ \E input \in {base} \cup (IF Cardinality(DOMAIN d) = 1 THEN DOMAIN d ELSE {}) :
                InitState([input |-> input, output |-> out], d, n)

(***************************************************************************)
(* main                                                                    *)
(***************************************************************************)
\* let input_files = collect_files(..); input_files.par_iter().for_each(..)
Collect ==
    /\ main = "collect"
    /\ \E files \in collect_files(disk, args.input) :
          /\ input_files' = files
          /\ \E lv \in leaves_of(1, Len(files), nthreads, nthreads, FALSE) : leaves' = lv
          /\ pc' = [i \in 1..Len(files) |-> "pending"]
          /\ contents_of' = [i \in 1..Len(files) |-> <<>>]
          /\ md' = [i \in 1..Len(files) |-> <<>>]
          /\ panic_at' = [i \in 1..Len(files) |-> ""]
    /\ main' = "for_each"
    /\ UNCHANGED <<args, disk, nthreads, opened, created>>

\* A task is over when it returned or panicked.
returned(i) ==
    pc[i] \in {"done", "skipped"}

\* A worker takes the items of its leaf in order; the panic of an item
\* unwinds the leaf, and the items after it are never converted.
runnable(i) ==
    /\ main = "for_each"
    /\ \E l \in 1..Len(leaves) : \E k \in 1..Len(leaves[l]) :
          /\ leaves[l][k] = i
          /\ \A j \in 1..(k - 1) : returned(leaves[l][j])

leaf_over(l) ==
    \/ \A k \in 1..Len(leaves[l]) : returned(leaves[l][k])
    \/ \E k \in 1..Len(leaves[l]) : pc[leaves[l][k]] = "panicked"

\* for_each returns once every leaf is over, and resumes a panic it caught.
Exit ==
    /\ main = "for_each"
    /\ \A l \in 1..Len(leaves) : leaf_over(l)
    /\ main' = IF \E i \in Tasks : pc[i] = "panicked" THEN "exit_panic" ELSE "exit_ok"
    /\ UNCHANGED <<args, disk, nthreads, input_files, leaves, pc, opened, created,
                   contents_of, md, panic_at>>

(***************************************************************************)
(* generate_markdown, one action per step of task i                        *)
(***************************************************************************)
panic(i, where) ==
    /\ pc' = [pc EXCEPT ![i] = "panicked"]
    /\ panic_at' = [panic_at EXCEPT ![i] = where]

goto(i, label) ==
    /\ pc' = [pc EXCEPT ![i] = label]
    /\ UNCHANGED panic_at

\* file_name_str.starts_with('_')
is_skipped(file_name_str) ==
    file_name_str # <<>> /\ file_name_str[1] = "_"

\* lines 86-97: the name of the file, and the early return
Begin(i) ==
    /\ runnable(i)
    /\ pc[i] = "pending"
    /\ LET file_name_str == file_name(input_files[i])
       IN  IF ~is_unicode(file_name_str) THEN panic(i, "into_string")
           ELSE IF is_skipped(file_name_str) THEN goto(i, "skipped")
           ELSE goto(i, "named")
    /\ UNCHANGED <<args, disk, nthreads, main, input_files, leaves, opened, created,
                   contents_of, md>>

\* lines 101-106: open and read the input; either may fail
ReadInput(i) ==
    /\ runnable(i)
    /\ pc[i] = "named"
    /\ \/ /\ input_files[i] \in DOMAIN disk
          /\ opened' = opened \cup {i}
          /\ goto(i, "read")
       \/ /\ panic(i, "open")
          /\ UNCHANGED opened
    /\ UNCHANGED <<args, disk, nthreads, main, input_files, leaves, created,
                   contents_of, md>>

\* the output file of task i
out_path(i) ==
    output_file(input_files[i], args.output)

\* lines 108-116: File::create(&output_file).unwrap()
CreateOutput(i) ==
    /\ runnable(i)
    /\ pc[i] = "read"
    /\ \/ /\ created' = created \cup {<<out_path(i), i>>}
          /\ goto(i, "created")
       \/ /\ panic(i, "create")
          /\ UNCHANGED created
    /\ UNCHANGED <<args, disk, nthreads, main, input_files, leaves, opened,
                   contents_of, md>>

\* the parsed content of the input of task i
document(i) ==
    parse_document(disk[input_files[i]])

\* if let Some(element_ref) = document.select(".mw-parser-output").next()
\* { contents } else { nothing: a different kind of page }
body_contents(html) ==
    LET found == select_document(html, ContainerSelector)
    IN  IF found = <<>> THEN [panic |-> FALSE, val |-> <<>>]
        ELSE contents(found[1])

\* A variant of WriteFrontMatter that collects the contents before it
\* writes: a heading without its span stops the task with nothing written.
WriteFrontMatterAfterContents(i) ==
    /\ runnable(i)
    /\ pc[i] = "created"
    /\ \E c \in {body_contents(document(i))} :
          IF c.panic
          THEN panic(i, "heading_span") /\ UNCHANGED md
          ELSE /\ md' = [md EXCEPT ![i] = Append(@, front_matter(quote(title(document(i))).val))]
               /\ goto(i, "front")
    /\ UNCHANGED <<args, disk, nthreads, main, input_files, leaves, opened, created,
                   contents_of>>

\* lines 118-140: parse, title, front matter
WriteFrontMatter(i) ==
    /\ runnable(i)
    /\ pc[i] = "created"
    /\ \/ \E q \in {quoted_title(title(document(i)))} :
              IF q.panic
              THEN panic(i, "quote") /\ UNCHANGED md
              ELSE /\ md' = [md EXCEPT ![i] = Append(@, front_matter(q.val))]
                   /\ goto(i, "front")
       \/ /\ panic(i, "write")
          /\ UNCHANGED md
    /\ UNCHANGED <<args, disk, nthreads, main, input_files, leaves, opened, created,
                   contents_of>>

\* lines 145-178: let contents = ...collect()
Classify(i) ==
    /\ runnable(i)
    /\ pc[i] = "front"
    /\ \E c \in {body_contents(document(i))} :
           IF c.panic
           THEN panic(i, "heading_span") /\ UNCHANGED contents_of
           ELSE /\ contents_of' = [contents_of EXCEPT ![i] = c.val]
                /\ goto(i, "classified")
    /\ UNCHANGED <<args, disk, nthreads, main, input_files, leaves, opened, created, md>>

\* lines 180-198: for content in contents { md.write(..).unwrap() }
WriteBlocks(i) ==
    /\ runnable(i)
    /\ pc[i] = "classified"
    /\ \/ /\ md' = [md EXCEPT ![i] = @ \o Flatten(Map(emit, contents_of[i]))]
          /\ goto(i, "blocks")
       \/ /\ contents_of[i] # <<>>
          /\ panic(i, "write")
          /\ UNCHANGED md
    /\ UNCHANGED <<args, disk, nthreads, main, input_files, leaves, opened, created,
                   contents_of>>

\* lines 205-218: the relative path and the footer
WriteFooter(i) ==
    /\ runnable(i)
    /\ pc[i] = "blocks"
    /\ \/ \E r \in {relative_path(input_files[i], out_path(i))} :
              IF r.panic
              THEN panic(i, "diff_paths") /\ UNCHANGED md
              ELSE /\ md' = [md EXCEPT ![i] = Append(@, footer(link_text(input_files[i], out_path(i)), r.val))]
                   /\ goto(i, "done")
       \/ /\ panic(i, "write")
          /\ UNCHANGED md
    /\ UNCHANGED <<args, disk, nthreads, main, input_files, leaves, opened, created,
                   contents_of>>

Next ==
    \/ Collect
    \/ Exit
    \/ \E i \in Tasks : Begin(i)
    \/ \E i \in Tasks : ReadInput(i)
    \/ \E i \in Tasks : CreateOutput(i)
    \/ \E i \in Tasks : WriteFrontMatter(i)
    \/ \E i \in Tasks : Classify(i)
    \/ \E i \in Tasks : WriteBlocks(i)
    \/ \E i \in Tasks : WriteFooter(i)

Spec ==
    Init /\ [][Next]_vars

(***************************************************************************)
(* The conversion of one page: a run over a folder that holds a.html, for  *)
(* every page made of at most MaxHeads pieces before the container and at  *)
(* most MaxBlocks pieces in it.                                            *)
(***************************************************************************)
MaxHeads ==
    2

MaxBlocks ==
    2

HeadKeys ==
    {"firstHeading", "section_0", "section_0_around", "firstHeading_quote"}

BlockKeys ==
    {"h2_span", "h2_bare", "h2_a_span", "h2_a_span_span", "h2_div_h2_span",
     "h3_span", "h3_bare", "h3_div_h2_span",
     "p_text", "p_amp", "p_bold", "p_empty",
     "section_ul", "section_empty", "section_div_ul", "section_nested",
     "div_h2_span", "text", "table"}

Pages ==
    {Content(h, TRUE, <<"h2_span">>) : h \in SeqsUpTo(HeadKeys, MaxHeads)}
    \cup {Content(<<>>, TRUE, inside) : inside \in SeqsUpTo(BlockKeys, MaxBlocks)}
    \cup {Content(<<"section_0">>, FALSE, <<k>>) : k \in BlockKeys}

InitDoc ==
    \E c \in Pages :
       InitState([input |-> <<<<"in">>>>, output |-> <<<<"out">>>>],
                 [q \in {<<<<"in">>, NameA>>} |-> c], 1)

SpecDoc ==
    InitDoc /\ [][Next]_vars

(***************************************************************************)
(* Properties of the conversion of one page (checked under SpecDoc).       *)
(* The operators below read a document on their own, by recursion over the *)
(* tree, and not through the selectors of the program.                     *)
(***************************************************************************)
\* The first element in document order, n included, whose id is one of ids
\* or whose class is one of classes: a sequence of one element or of none.
RECURSIVE FirstElement(_, _, _)
FirstElement(n, ids, classes) ==
    IF ~is_text(n) /\ (n.id \in ids \/ n.cls \in classes) THEN <<n>>
    ELSE LET found == [k \in 1..Len(n.kids) |-> FirstElement(n.kids[k], ids, classes)]
             hits == {k \in 1..Len(n.kids) : found[k] # <<>>}
         IN  IF hits = {} THEN <<>>
             ELSE found[CHOOSE k \in hits : \A j \in hits : k <= j]

\* The spans below n in document order, each with the tag of its parent.
RECURSIVE SpansBelow(_)
SpansBelow(n) ==
    Flatten([k \in 1..Len(n.kids) |->
               (IF n.kids[k].tag = "span"
                THEN <<[node |-> n.kids[k], parent |-> n.tag]>> ELSE <<>>)
               \o SpansBelow(n.kids[k])])

\* The inner markup of the li children of the ul elements at or below n,
\* in document order.
RECURSIVE ListItems(_)
ListItems(n) ==
    Flatten([k \in 1..Len(n.kids) |->
               (IF n.tag = "ul" /\ n.kids[k].tag = "li"
                THEN <<inner_html(n.kids[k])>> ELSE <<>>)
               \o ListItems(n.kids[k])])

PageOf(i) ==
    parse_document(disk[input_files[i]])

ContainerOf(i) ==
    FirstElement(PageOf(i), {}, {"mw-parser-output"})

\* What task i wrote after the front matter and before the footer.
BodyWritten(i) ==
    SubSeq(md[i], 2, IF pc[i] = "done" THEN Len(md[i]) - 1 ELSE Len(md[i]))

\* A block without the text of a heading.
Shape(block) ==
    IF block.kind = "heading" THEN [kind |-> "heading", level |-> block.level]
    ELSE block

\* The blocks the direct children of the container stand for.
ExpectedBlock(c) ==
    IF c.tag = "h2" THEN <<[kind |-> "heading", level |-> 1]>>
    ELSE IF c.tag = "h3" THEN <<[kind |-> "heading", level |-> 2]>>
    ELSE IF c.tag = "p" /\ \A k \in 1..Len(c.kids) : c.kids[k].tag = "#text"
         THEN <<[kind |-> "paragraph", text |-> inner_html(c)]>>
    ELSE IF c.tag = "section"
         THEN <<[kind |-> "list", numbered |-> FALSE, items |-> ListItems(c)]>>
    ELSE <<>>

ExpectedBody(container) ==
    Flatten([k \in 1..Len(container.kids) |->
               IF container.kids[k].tag = "#text" THEN <<>>
               ELSE ExpectedBlock(container.kids[k])])

\* C2: for a page with a .mw-parser-output container, once the footer is
\* written, the blocks between the front matter and the footer are, in
\* document order, those of the container's direct element children:
\* h2 -> heading of level 1, h3 -> heading of level 2, p with text children
\* only -> paragraph, section -> the unnumbered list of its ul > li items;
\* any other child, and anything nested deeper, gives no block.
C2_BodyInDocumentOrder ==
    \A i \in Tasks :
       (pc[i] = "done" /\ ContainerOf(i) # <<>>)
          => Map(Shape, BodyWritten(i)) = ExpectedBody(ContainerOf(i)[1])

\* C2, witness: a converted page whose container has a child that gives a
\* block and a child that gives none.
C2_Witness ==
    \E i \in Tasks :
       /\ pc[i] = "done"
       /\ ContainerOf(i) # <<>>
       /\ BodyWritten(i) # <<>>
       /\ Len(BodyWritten(i)) < Len(ContainerOf(i)[1].kids)

TitleIds ==
    {"firstHeading", "section_0"}

\* The title by the order of the document: the inner markup of the first
\* element whose id is firstHeading or section_0, UNKNOWN without one.
TitleInDocumentOrder(i) ==
    LET f == FirstElement(PageOf(i), TitleIds, {})
    IN  IF f # <<>> THEN inner_html(f[1]) ELSE <<"UNKNOWN">>

\* The title with #firstHeading before #section_0.
TitleByPriority(i) ==
    LET first == FirstElement(PageOf(i), {"firstHeading"}, {})
        second == FirstElement(PageOf(i), {"section_0"}, {})
    IN  IF first # <<>> THEN inner_html(first[1])
        ELSE IF second # <<>> THEN inner_html(second[1])
        ELSE <<"UNKNOWN">>

FrontMatterWritten(i) ==
    pc[i] \in {"front", "classified", "blocks", "done"}

\* C3 as stated: the title is #firstHeading's inner markup whenever the
\* page has one, also when a #section_0 comes first; #section_0's only
\* without a #firstHeading; UNKNOWN with neither.
C3_FirstHeadingHasPriority ==
    \A i \in Tasks :
       FrontMatterWritten(i)
          => md[i][1] = front_matter(quote(TitleByPriority(i)).val)

\* C3, amended: the title is the inner markup of the first element in
\* document order whose id is firstHeading or section_0, whichever of the
\* two it is; it is UNKNOWN when the page has neither.
C3_FirstInDocumentOrder ==
    \A i \in Tasks :
       FrontMatterWritten(i)
          => md[i][1] = front_matter(quote(TitleInDocumentOrder(i)).val)

\* C3, witness: the front matter of a page where a #section_0 comes before
\* a #firstHeading has been written.
C3_Witness ==
    \E i \in Tasks :
       /\ FrontMatterWritten(i)
       /\ FirstElement(PageOf(i), {"firstHeading"}, {}) # <<>>
       /\ TitleInDocumentOrder(i) # TitleByPriority(i)

\* The h2 and h3 children of the container of task i.
HeadingsOf(i) ==
    IF ContainerOf(i) = <<>> THEN <<>>
    ELSE SelectSeq(ContainerOf(i)[1].kids, LAMBDA c : c.tag \in {"h2", "h3"})

\* The spans below heading h that are children of an element of h's tag.
ChildSpans(h) ==
    SelectSeq(SpansBelow(h), LAMBDA sp : sp.parent = h.tag)

HeadingTextsWritten(i) ==
    Map(LAMBDA b : b.text, SelectSeq(BodyWritten(i), LAMBDA b : b.kind = "heading"))

Classified(i) ==
    pc[i] \in {"blocks", "done"}

\* C7 as stated: the conversion aborts exactly when an h2 or h3 child of
\* the container has no descendant span, and the text of a heading is the
\* inner markup of its first descendant span.
C7_AbortIffNoDescendantSpan ==
    \A i \in Tasks :
       /\ panic_at[i] = "heading_span"
             => \E k \in 1..Len(HeadingsOf(i)) : SpansBelow(HeadingsOf(i)[k]) = <<>>
       /\ Classified(i)
             => /\ \A k \in 1..Len(HeadingsOf(i)) : SpansBelow(HeadingsOf(i)[k]) # <<>>
                /\ HeadingTextsWritten(i)
                      = Map(LAMBDA h : inner_html(SpansBelow(h)[1].node), HeadingsOf(i))

\* C7, amended: the conversion aborts exactly when an h2 (h3) child of the
\* container has no descendant span whose parent is an h2 (h3) element; a
\* span nested in another element of the heading does not count.  The text
\* of a heading is the inner markup of the first span that counts.
C7_AbortIffNoChildSpan ==
    \A i \in Tasks :
       /\ panic_at[i] = "heading_span"
             => \E k \in 1..Len(HeadingsOf(i)) : ChildSpans(HeadingsOf(i)[k]) = <<>>
       /\ Classified(i)
             => /\ \A k \in 1..Len(HeadingsOf(i)) : ChildSpans(HeadingsOf(i)[k]) # <<>>
                /\ HeadingTextsWritten(i)
                      = Map(LAMBDA h : inner_html(ChildSpans(h)[1].node), HeadingsOf(i))

\* C7, witness: a conversion aborted on its headings although every one of
\* them has a descendant span.
C7_Witness ==
    \E i \in Tasks :
       /\ panic_at[i] = "heading_span"
       /\ \A k \in 1..Len(HeadingsOf(i)) : SpansBelow(HeadingsOf(i)[k]) # <<>>

(***************************************************************************)
(* Properties of a run (checked under Spec)                                *)
(***************************************************************************)
BeginsWithUnderscore(i) ==
    file_name(input_files[i])[1] = "_"

\* C1: a task whose file name begins with '_' reads no input, creates no
\* file, leaves no output file derived from its name, and raises no error.
C1_UnderscoreSkippedQuietly ==
    \A i \in Tasks :
       BeginsWithUnderscore(i)
          => /\ i \notin opened
             /\ \A c \in created : c[2] # i /\ c[1] # out_path(i)
             /\ pc[i] # "panicked"

\* The part of C1 that holds: a name that is valid Unicode and begins with
\* '_' makes the task return at once.
UnderscoreSkipped ==
    \A i \in Tasks :
       (BeginsWithUnderscore(i) /\ is_unicode(file_name(input_files[i])))
          => /\ pc[i] \in {"pending", "skipped"}
             /\ i \notin opened
             /\ \A c \in created : c[2] # i /\ c[1] # out_path(i)

\* Percent-decoding: '%' and the two digits after it stand for one character.
RECURSIVE decode(_)
decode(str) ==
    IF str = <<>> THEN <<>>
    ELSE IF Head(str) = "%" /\ Len(str) >= 2
         THEN <<CASE str[2] = "2F" -> "/"
                  [] str[2] = "20" -> " "
                  [] str[2] = "25" -> "%">> \o decode(SubSeq(str, 3, Len(str)))
    ELSE <<Head(str)>> \o decode(Tail(str))

\* The components of a path written as a string.
RECURSIVE split_path(_, _)
split_path(str, cur) ==
    IF str = <<>> THEN (IF cur = <<>> THEN <<>> ELSE <<cur>>)
    ELSE IF Head(str) = "/"
         THEN (IF cur = <<>> THEN <<>> ELSE <<cur>>) \o split_path(Tail(str), <<>>)
    ELSE split_path(Tail(str), Append(cur, Head(str)))

path_of(str) ==
    (IF str # <<>> /\ str[1] = "/" THEN <<RootDir>> ELSE <<>>) \o split_path(str, <<>>)

\* A path without '.' and without the '..' that a component before it
\* cancels; the parent of the root is the root.
RECURSIVE normalize(_, _)
normalize(p, acc) ==
    IF p = <<>> THEN acc
    ELSE IF Head(p) = CurDir THEN normalize(Tail(p), acc)
    ELSE IF Head(p) = ParentDir /\ acc # <<>> /\ acc[Len(acc)] = RootDir
         THEN normalize(Tail(p), acc)
    ELSE IF Head(p) = ParentDir /\ acc # <<>> /\ acc[Len(acc)] # ParentDir
         THEN normalize(Tail(p), SubSeq(acc, 1, Len(acc) - 1))
    ELSE normalize(Tail(p), Append(acc, Head(p)))

resolve(dir, rel) ==
    normalize(IF is_absolute(rel) THEN rel ELSE dir \o rel, <<>>)

FooterOf(i) ==
    md[i][Len(md[i])]

\* C5: the link of the footer, percent-decoded and resolved against the
\* directory of the output file, is the path of the input file.
C5_FooterLinkRoundTrip ==
    \A i \in Tasks :
       pc[i] = "done"
          => resolve(SubSeq(out_path(i), 1, Len(out_path(i)) - 1),
                     path_of(decode(FooterOf(i).link_to)))
             = normalize(input_files[i], <<>>)

\* C6: no output path is created by two tasks of one run.
C6_DisjointOutputFiles ==
    \A c1, c2 \in created : c1[1] = c2[1] => c1[2] = c2[2]

\* C8: a failure to create or write an output file stops its own task
\* only.  When the run is over and no task failed in another way, every
\* task has run: none was left unconverted.
C8_SiblingsRunToCompletion ==
    (/\ main \in {"exit_ok", "exit_panic"}
     /\ \A j \in Tasks : pc[j] = "panicked" => panic_at[j] \in {"create", "write"})
       => \A i \in Tasks : pc[i] # "pending"

HasCreated(i) ==
    <<out_path(i), i>> \in created

IsFrontMatter(block) ==
    block.kind = "raw"

IsFooter(block) ==
    block.kind = "paragraph" /\ "link_to" \in DOMAIN block

\* C10: the steps of a task come in the order read, create, front matter,
\* classify, blocks, footer.  So a task that aborts in the classification
\* has created its output file and written the front matter to it and
\* nothing else, and a task that fails to read its input created no file.
C10_StepsInOrder ==
    \A i \in Tasks :
       /\ pc[i] \in {"pending", "skipped", "named"}
             => i \notin opened /\ ~HasCreated(i) /\ md[i] = <<>>
       /\ pc[i] = "read" => i \in opened /\ ~HasCreated(i) /\ md[i] = <<>>
       /\ pc[i] = "created" => i \in opened /\ HasCreated(i) /\ md[i] = <<>>
       /\ pc[i] \in {"front", "classified"}
             => HasCreated(i) /\ Len(md[i]) = 1 /\ IsFrontMatter(md[i][1])
       /\ pc[i] \in {"blocks", "done"}
             => /\ HasCreated(i)
                /\ IsFrontMatter(md[i][1])
                /\ \A k \in 2..Len(md[i]) :
                      /\ ~IsFrontMatter(md[i][k])
                      /\ IsFooter(md[i][k]) <=> (pc[i] = "done" /\ k = Len(md[i]))
       /\ panic_at[i] = "heading_span"
             => /\ i \in opened
                /\ HasCreated(i)
                /\ Len(md[i]) = 1
                /\ IsFrontMatter(md[i][1])
       /\ panic_at[i] = "open"
             => ~HasCreated(i) /\ md[i] = <<>>

\* C10, witness: a task aborted in the classification, and one that failed
\* to read its input.
C10_Witness ==
    /\ \E i \in Tasks : panic_at[i] = "heading_span"
    /\ \E i \in Tasks : panic_at[i] = "open"

=============================================================================
